---- MODULE Spec2Model ----
(***************************************************************************)
(* Australian domestic flights dashboard: the loader                       *)
(* (data_cleaning_formatting.py) and the query layer and its callers       *)
(* (final-assignment.py).                                                  *)
(*                                                                         *)
(* Python values are modelled as follows.                                  *)
(*   str          a sequence of one-character strings, so that title(),    *)
(*                split() and f-string concatenation are computed;         *)
(*                the text of a date input box or of a Month cell is an    *)
(*                atomic token whose parse is tabulated (Timestamp)        *)
(*   DataFrame    [tag, columns, rows]; a row is a function from the       *)
(*                column names (and "idx", its pandas index label) to      *)
(*                the cell values; boolean-mask selection and sorting      *)
(*                keep the index labels, as pandas does                    *)
(*   None         [tag |-> "None"]                                         *)
(*   float        an exact fraction [num, den] in lowest terms, or NaN     *)
(*   Timestamp    the day number counted from 2020-01-01                   *)
(* A call either returns a value or raises: Return(v) / Raise(e).          *)
(*                                                                         *)
(* Each function is modelled as it runs when called, by the windows or by  *)
(* the unit tests, on a bounded family of tables or files; every call      *)
(* records itself in `call` and its outcome in `ret`.  SpecProgram is the  *)
(* script run from its first line: the load, the definitions, the          *)
(* dashboard and the event loops of the windows.                           *)
(***************************************************************************)
EXTENDS Integers, Sequences, FiniteSets, TLC

VARIABLES
    data,      \* the module-level table `data` of final-assignment.py
    call,      \* the function called last and its arguments
    ret,       \* how that call ended: Return(value) or Raise(exception)
    popups,    \* the sg.popup messages that call showed, in order
    canvas,    \* the children of the Tk canvas (the embedded figures)
    stdout,    \* the lines that call printed
    disk,      \* the files the loader may be pointed at, by path
    pc,        \* where the script final-assignment.py stands: a line of its
               \* top level, the window whose event loop is reading, "exited",
               \* "aborted" (an exception reached the top level), or "direct"
               \* when the functions are called one by one, as the tests do
    windows,   \* the windows that exist, the dashboard first
    shown,     \* the rows the table of the data exploration window shows
    window_read  \* what the last window.read() returned: the event, the values
               \* of the input elements, and the window that read them

vars == <<data, call, ret, popups, canvas, stdout, disk, pc, windows, shown, window_read>>

(***************************************************************************)
(* Bounds of the model.                                                    *)
(***************************************************************************)
\* most rows of a table in the lookup, filter and statistics specifications
MaxRows == 3

\* most rows of a table in the specification of the lookup's callers
MaxCallerRows == 2

(***************************************************************************)
(* Python values.                                                          *)
(***************************************************************************)
None == [tag |-> "None"]

DataFrame(cols, rws) == [tag |-> "DataFrame", columns |-> cols, rows |-> rws]

Return(v) == [kind |-> "return", val |-> v]

Raise(e) == [kind |-> "raise", exc |-> e]

NoCall == [fn |-> "none", args |-> <<>>]

\* `event, values = window.read()` in the window whose loop is running
Read(window, event, values) == [window |-> window, event |-> event, values |-> values]

NoRead == Read("none", "none", <<>>)

\* the paths the program and the tests pass to the loader
Paths == {"dom_city_pair.csv", "nonexistent_file.csv", "empty_file.csv"}

\* no file at the path
Missing == [exists |-> FALSE]

\* a file: its header line (the column names) and its data lines, each a
\* function from the column names to the cells; a file of zero bytes has neither
File(header, lines) == [exists |-> TRUE, header |-> header, lines |-> lines]

\* DataFrame.empty: no rows, or no columns
empty(df) == df.rows = <<>> \/ df.columns = {}

RECURSIVE Gather(_, _, _)
\* the rows from position i on at which the boolean mask is true
Gather(rws, mask, i) ==
    IF i > Len(rws) THEN <<>>
    ELSE (IF mask[i] THEN <<rws[i]>> ELSE <<>>) \o Gather(rws, mask, i + 1)

\* df[mask]: the rows the mask keeps, in the table's order, labels kept
BoolIndex(df, mask) == DataFrame(df.columns, Gather(df.rows, mask, 1))

\* f"{city1} - {city2}"
Sep == <<" ", "-", " ">>

Format(city1, city2) == city1 \o Sep \o city2

\* the first position at which sep occurs in s, 0 when it does not
Find(s, sep) ==
    LET hits == {i \in 1..(Len(s) - Len(sep) + 1) :
                    SubSeq(s, i, i + Len(sep) - 1) = sep}
    IN  IF hits = {} THEN 0 ELSE CHOOSE i \in hits : \A j \in hits : i <= j

RECURSIVE split(_, _)
\* str.split(sep) for a non-empty separator
split(s, sep) ==
    LET i == Find(s, sep)
    IN  IF i = 0
        THEN <<s>>
        ELSE <<SubSeq(s, 1, i - 1)>> \o split(SubSeq(s, i + Len(sep), Len(s)), sep)

(***************************************************************************)
(* The columns of the loaded table and the fixtures the queries run on.    *)
(***************************************************************************)
Columns ==
    {"City1", "City2", "Month", "Date", "Passenger_Trips", "Aircraft_Trips",
     "Passenger_Load_Factor", "Distance_GC_(km)"}

MkRow(c1, c2, month, date, pt, at, lf, km) ==
    ("City1" :> c1) @@ ("City2" :> c2) @@ ("Month" :> month)
    @@ ("Date" :> date) @@ ("Passenger_Trips" :> pt) @@ ("Aircraft_Trips" :> at)
    @@ ("Passenger_Load_Factor" :> lf) @@ ("Distance_GC_(km)" :> km)

\* city names as the loader leaves them (title case)
Adelaide == <<"A", "d">>

Brisbane == <<"B", "r">>

TableCities == {Adelaide, Brisbane}

\* what a caller may type or pass: also the empty string and a name that
\* differs from a stored one only in case
CityInputs == {<<>>, Adelaide, Brisbane, <<"a", "d">>}

\* what the windows pass on to the lookup's callers: never an empty string
CallerCities == {Adelaide, Brisbane, <<"a", "d">>}

\* pandas gives the rows of a freshly read table the labels 0, 1, 2, ...
RangeIndexed(rws) == [i \in 1..Len(rws) |-> ("idx" :> (i - 1)) @@ rws[i]]

SeqsUpTo(S, n) == UNION {[1..k -> S] : k \in 0..n}

(***************************************************************************)
(* update_dashboard_canvas and __clear_existing_widgets.                   *)
(***************************************************************************)
\* canvas.winfo_children(): a new list of the children, in stacking order
winfo_children(cv) == cv

\* child.destroy(): the widget leaves the children of its master
destroy(child, cv) ==
    LET at == CHOOSE i \in 1..Len(cv) : cv[i] = child /\ \A j \in 1..(i - 1) : cv[j] # child
    IN  IF \E i \in 1..Len(cv) : cv[i] = child
        THEN SubSeq(cv, 1, at - 1) \o SubSeq(cv, at + 1, Len(cv))
        ELSE cv

\* lines 62-63: `for child in canvas.winfo_children(): child.destroy()`
RECURSIVE destroy_each(_, _)
destroy_each(children, cv) ==
    IF children = <<>> THEN cv
    ELSE destroy_each(Tail(children), destroy(Head(children), cv))

\* lines 61-63 with the loop ended after its first turn
clear_existing_widgets_first_child(cv) ==
    IF cv # <<>> THEN destroy_each(<<Head(winfo_children(cv))>>, cv) ELSE cv

clear_existing_widgets(cv) ==
    IF cv # <<>> THEN destroy_each(winfo_children(cv), cv) ELSE cv

update_dashboard_canvas(fig, cv) == Append(clear_existing_widgets(cv), fig)

(***************************************************************************)
(* get_city_pair_data.                                                     *)
(***************************************************************************)
\* the lookup with `|` written for `&` in the mask
get_city_pair_data_or(city1, city2) ==
    LET mask == [i \in 1..Len(data.rows) |->
                    data.rows[i]["City1"] = city1 \/ data.rows[i]["City2"] = city2]
    IN  BoolIndex(data, mask)

get_city_pair_data(city1, city2) ==
    LET mask == [i \in 1..Len(data.rows) |->
                    data.rows[i]["City1"] = city1 /\ data.rows[i]["City2"] = city2]
        city_pair_data == BoolIndex(data, mask)
    IN  IF city_pair_data.tag = "None" THEN None ELSE city_pair_data

\* a column of a table, as the sequence of its cells
Col(df, c) == [i \in 1..Len(df.rows) |-> df.rows[i][c]]

\* one plotted line: ax.plot(x, y, label=...)
Line(df, ycol, label) == [label |-> label, x |-> Col(df, "Date"), y |-> Col(df, ycol)]

Figure(title, lines) == [title |-> title, lines |-> lines]

\* what a call leaves behind: its outcome, its popups and the canvas
Eff(r, p, cv) == [ret |-> r, popups |-> p, canvas |-> cv]

(***************************************************************************)
(* plot_passenger_trips_trend. `clicked` is what sg.popup returns.         *)
(***************************************************************************)
\* the trend plot with `is None` written for `.empty`: iloc[0] of a table
\* without rows raises IndexError
plot_passenger_trips_trend_is_none(city_pair_data, cv, clicked) ==
    IF city_pair_data.tag = "None"
    THEN Eff(Return(clicked), <<[msg |-> "No data found for the city pair"]>>, cv)
    ELSE IF city_pair_data.rows = <<>> THEN Eff(Raise("IndexError"), <<>>, cv)
    ELSE Eff(Raise("NameError"), <<>>, cv)

plot_passenger_trips_trend(city_pair_data, cv, clicked) ==
    IF empty(city_pair_data)
    THEN Eff(Return(clicked), <<[msg |-> "No data found for the city pair"]>>, cv)
    ELSE LET city1 == city_pair_data.rows[1]["City1"]
             city2 == city_pair_data.rows[1]["City2"]
             fig == Figure(<<"Passenger Trips Trend for", city1, city2>>,
                           <<Line(city_pair_data, "Passenger_Trips", <<>>)>>)
         IN  \* line 151 calls update_dashboardd_canvas, a name that is not defined
             Eff(Raise("NameError"), <<>>, cv)

(***************************************************************************)
(* compare_two_city_pairs_passenegr_trip_trends.                           *)
(***************************************************************************)
\* lines 188-189: the lines one turn of the loop adds to the axes, given
\* what the lookup returned
compare_plot(city1, city2, city_pair_data) ==
    IF city_pair_data.tag # "None"
    THEN <<Line(city_pair_data, "Passenger_Trips", Format(city1, city2))>>
    ELSE <<>>

\* one turn of the loop over [pair1, pair2]
compare_loop_body(city_pair) ==
    LET parts == split(city_pair, Sep)
    IN  IF Len(parts) # 2
        THEN Raise("ValueError")
        ELSE LET city1 == parts[1]
                 city2 == parts[2]
                 city_pair_data == get_city_pair_data(city1, city2)
             IN  Return(compare_plot(city1, city2, city_pair_data))

compare_two_city_pairs_passenegr_trip_trends(pair1, pair2, cv) ==
    LET first == compare_loop_body(pair1)
        second == compare_loop_body(pair2)
    IN  IF first.kind = "raise" THEN Eff(first, <<>>, cv)
        ELSE IF second.kind = "raise" THEN Eff(second, <<>>, cv)
        ELSE LET fig == Figure(<<"Comparison of Passenger Trips Between Two City Pairs">>,
                               first.val \o second.val)
             IN  Eff(Return(None), <<>>, update_dashboard_canvas(fig, cv))

\* the function as the unit tests run it, with get_city_pair_data patched to
\* return side_effect[1] to the first turn of the loop and side_effect[2] to
\* the second
compare_with_patched_lookup(pair1, pair2, side_effect, cv) ==
    LET parts1 == split(pair1, Sep)
        parts2 == split(pair2, Sep)
    IN  IF Len(parts1) # 2 \/ Len(parts2) # 2 THEN Eff(Raise("ValueError"), <<>>, cv)
        ELSE LET fig == Figure(<<"Comparison of Passenger Trips Between Two City Pairs">>,
                               compare_plot(parts1[1], parts1[2], side_effect[1])
                               \o compare_plot(parts2[1], parts2[2], side_effect[2]))
             IN  Eff(Return(None), <<>>, update_dashboard_canvas(fig, cv))

(***************************************************************************)
(* analyze_city_pair_load_factor.                                          *)
(***************************************************************************)
\* the analysis with `is None` written for `.empty`
analyze_city_pair_load_factor_is_none(city1, city2, cv) ==
    LET city_pair_data == get_city_pair_data(city1, city2)
    IN  IF city_pair_data.tag = "None"
        THEN Eff(Return(None),
                 <<[msg |-> "No data found for the city pair: ",
                    pair |-> Format(city1, city2)]>>,
                 cv)
        ELSE LET fig == Figure(<<"Passenger Load Factor for", city1, city2>>,
                               <<Line(city_pair_data, "Passenger_Load_Factor",
                                      <<"Passenger Load Factor">>)>>)
             IN  Eff(Return(None), <<>>, update_dashboard_canvas(fig, cv))

analyze_city_pair_load_factor(city1, city2, cv) ==
    LET city_pair_data == get_city_pair_data(city1, city2)
    IN  IF empty(city_pair_data)
        THEN Eff(Return(None),
                 <<[msg |-> "No data found for the city pair: ",
                    pair |-> Format(city1, city2)]>>,
                 cv)
        ELSE LET fig == Figure(<<"Passenger Load Factor for", city1, city2>>,
                               <<Line(city_pair_data, "Passenger_Load_Factor",
                                      <<"Passenger Load Factor">>)>>)
             IN  Eff(Return(None), <<>>, update_dashboard_canvas(fig, cv))

(***************************************************************************)
(* The calls of the city-pair lookup and of its three callers.             *)
(***************************************************************************)
\* the effect of a call on the state; the table is only read
Called(fn, args, eff) ==
    /\ call' = [fn |-> fn, args |-> args]
    /\ ret' = eff.ret
    /\ popups' = eff.popups
    /\ canvas' = eff.canvas
    /\ UNCHANGED <<data, stdout, disk, pc, windows, shown, window_read>>

GetCityPairData(city1, city2) ==
    Called("get_city_pair_data", <<city1, city2>>,
           Eff(Return(get_city_pair_data(city1, city2)), <<>>, canvas))

\* trend_analysis_window, line 711
PlotPassengerTripsTrend(city1, city2, clicked) ==
    Called("plot_passenger_trips_trend", <<city1, city2>>,
           plot_passenger_trips_trend(get_city_pair_data(city1, city2), canvas, clicked))

CompareTwoCityPairs(pair1, pair2) ==
    Called("compare_two_city_pairs_passenegr_trip_trends", <<pair1, pair2>>,
           compare_two_city_pairs_passenegr_trip_trends(pair1, pair2, canvas))

AnalyzeCityPairLoadFactor(city1, city2) ==
    Called("analyze_city_pair_load_factor", <<city1, city2>>,
           analyze_city_pair_load_factor(city1, city2, canvas))

\* the comparison under test: the third argument is what the patched lookup
\* returns to the two turns of the loop
CompareWithPatchedLookup(pair1, pair2, side_effect) ==
    Called("compare_two_city_pairs_passenegr_trip_trends", <<pair1, pair2, side_effect>>,
           compare_with_patched_lookup(pair1, pair2, side_effect, canvas))

\* what the tests make the patched lookup return: None, or a table of the two
\* columns the comparison plots
MockTable ==
    DataFrame({"Date", "Passenger_Trips"},
              RangeIndexed(<<("Date" :> 0) @@ ("Passenger_Trips" :> 100)>>))

SideEffects == [1..2 -> {None, MockTable}]

\* sg.popup returns the text of the button pressed, None when the popup is closed
PopupResults == {[tag |-> "str", s |-> "OK"], None}

\* the pairs a caller may pass to the comparison
PairInputs ==
    {Format(Adelaide, Brisbane), Format(Brisbane, Adelaide), Format(<<"a", "d">>, Brisbane)}

\* the tables of the lookup specification: every City1/City2 combination
LookupRows ==
    {MkRow(c1, c2, "Jan-20", 0, 10, 1, 50, 100) : c1 \in TableCities, c2 \in TableCities}

LookupTables(n) == {DataFrame(Columns, RangeIndexed(rws)) : rws \in SeqsUpTo(LookupRows, n)}

\* the state before any call, with `data` one of the given tables
InitWith(tables) ==
    /\ data \in tables
    /\ call = NoCall
    /\ ret = Return(None)
    /\ popups = <<>>
    /\ canvas = <<>>
    /\ stdout = <<>>
    /\ disk = [path \in Paths |-> Missing]
    /\ pc = "direct"
    /\ windows = <<>>
    /\ shown = <<>>
    /\ window_read = NoRead

InitLookup == InitWith(LookupTables(MaxRows))

NextLookup ==
    \E city1 \in CityInputs, city2 \in CityInputs : GetCityPairData(city1, city2)

SpecLookup == InitLookup /\ [][NextLookup]_vars

InitCallers == InitWith(LookupTables(MaxCallerRows))

NextCallers ==
    \/ \E city1 \in CallerCities, city2 \in CallerCities : GetCityPairData(city1, city2)
    \/ \E city1 \in CallerCities, city2 \in CallerCities, clicked \in PopupResults :
            PlotPassengerTripsTrend(city1, city2, clicked)
    \/ \E pair1 \in PairInputs, pair2 \in PairInputs : CompareTwoCityPairs(pair1, pair2)
    \/ \E side_effect \in SideEffects :
            CompareWithPatchedLookup(Format(Adelaide, Brisbane), Format(Brisbane, Adelaide),
                                     side_effect)
    \/ \E city1 \in CallerCities, city2 \in CallerCities :
            AnalyzeCityPairLoadFactor(city1, city2)

SpecCallers == InitCallers /\ [][NextCallers]_vars

(***************************************************************************)
(* Claims about the city-pair lookup.                                      *)
(***************************************************************************)
\* the positions of the table's rows that carry the two city values
Matching(city1, city2) ==
    {i \in 1..Len(data.rows) :
        data.rows[i]["City1"] = city1 /\ data.rows[i]["City2"] = city2}

C2_EmptyNeverNoneAndCallersTestEmptiness ==
    LET NoData(city1, city2) == Matching(city1, city2) = {}
    IN  /\ call.fn = "get_city_pair_data" =>
            /\ ret.kind = "return"
            /\ ret.val.tag = "DataFrame"
            /\ NoData(call.args[1], call.args[2]) => ret.val.rows = <<>>
        /\ call.fn \in {"plot_passenger_trips_trend", "analyze_city_pair_load_factor"} =>
            (popups # <<>> <=> NoData(call.args[1], call.args[2]))
        /\ (/\ call.fn = "compare_two_city_pairs_passenegr_trip_trends"
            /\ Len(call.args) = 2
            /\ ret.kind = "return") =>
            \A k \in 1..2 :
                LET parts == split(call.args[k], Sep)
                    drawn == \E n \in 1..Len(canvas[Len(canvas)].lines) :
                                canvas[Len(canvas)].lines[n].label = call.args[k]
                IN  drawn <=> ~NoData(parts[1], parts[2])

(***************************************************************************)
(* Claims about the callers of the lookup.                                 *)
(***************************************************************************)
\* what the lookup returned to the call c of a caller that takes two cities
LookedUp(c) == get_city_pair_data(c.args[1], c.args[2])

\* C16: plot_passenger_trips_trend called with an empty city-pair table
\* shows the popup "No data found for the city pair" once, and only it, and
\* leaves the canvas as it was.
C16_EmptyTrendPopupOnly ==
    [][(call'.fn = "plot_passenger_trips_trend" /\ empty(LookedUp(call'))) =>
            /\ popups' = <<[msg |-> "No data found for the city pair"]>>
            /\ canvas' = canvas
            /\ ret'.kind = "return"]_vars

\* the trend plot of a pair without rows, asked for while the canvas holds
\* the figure of an earlier analysis
C16_Witness ==
    /\ call.fn = "plot_passenger_trips_trend"
    /\ empty(LookedUp(call))
    /\ data.rows # <<>>
    /\ Len(popups) = 1
    /\ Len(canvas) = 1

\* C17: plot_passenger_trips_trend called with a city-pair table that has
\* rows ends without an error and calls update_dashboard_canvas with its
\* figure: the canvas then holds the trend plot of the pair.
C17_TrendOfPairWithRowsIsDrawn ==
    (call.fn = "plot_passenger_trips_trend" /\ ~empty(LookedUp(call))) =>
        /\ ret.kind = "return"
        /\ Len(canvas) = 1
        /\ canvas[1].title
            = <<"Passenger Trips Trend for",
                LookedUp(call).rows[1]["City1"], LookedUp(call).rows[1]["City2"]>>

\* what the lookup returned to turn k of the loop of the comparison c
ComparedData(c, k) ==
    IF Len(c.args) = 3 THEN c.args[3][k]
    ELSE LET parts == split(c.args[k], Sep)
         IN  get_city_pair_data(parts[1], parts[2])

\* whether pair k of the comparison c has data: the lookup returned a table
\* (not None) and the table has rows
PairHasData(c, k) == ComparedData(c, k).tag # "None" /\ ~empty(ComparedData(c, k))

IsComparison(c) == c.fn = "compare_two_city_pairs_passenegr_trip_trends"

\* C18: when at least one of the two pairs has data, the comparison updates
\* the canvas once, also when the lookup of the other pair returned None,
\* and its figure holds a line for each pair that has data and none for a
\* pair that has not.
C18_ComparisonDrawsPairsWithData ==
    (IsComparison(call) /\ \E k \in 1..2 : PairHasData(call, k)) =>
        /\ ret.kind = "return"
        /\ Len(canvas) = 1
        /\ canvas[1].title = <<"Comparison of Passenger Trips Between Two City Pairs">>
        /\ LET with_data == {k \in 1..2 : PairHasData(call, k)}
               lines == canvas[1].lines
           IN  /\ Len(lines) = Cardinality(with_data)
               /\ \A n \in 1..Len(lines) : \E k \in with_data :
                        /\ lines[n].label = call.args[k]
                        /\ lines[n].y = Col(ComparedData(call, k), "Passenger_Trips")

\* C19: when neither of the two pairs has data, the comparison does not
\* update the canvas.
C19_ComparisonWithoutDataLeavesCanvas ==
    [][(IsComparison(call') /\ \A k \in 1..2 : ~PairHasData(call', k)) =>
            canvas' = canvas]_vars

\* C20: analyze_city_pair_load_factor either shows the one popup "No data
\* found for the city pair: <city1> - <city2>" and leaves the canvas as it
\* was, when the lookup of the pair is empty, or shows no popup and updates
\* the canvas once, with the load-factor figure of the pair.
C20_LoadFactorPopupOrFigure ==
    [][call'.fn = "analyze_city_pair_load_factor" =>
            /\ ret'.kind = "return"
            /\ IF empty(LookedUp(call'))
               THEN /\ popups' = <<[msg |-> "No data found for the city pair: ",
                                    pair |-> call'.args[1] \o <<" ", "-", " ">> \o call'.args[2]]>>
                    /\ canvas' = canvas
               ELSE /\ popups' = <<>>
                    /\ Len(canvas') = 1
                    /\ canvas'[1].title
                        = <<"Passenger Load Factor for", call'.args[1], call'.args[2]>>
                    /\ Len(canvas'[1].lines) = 1
                    /\ canvas'[1].lines[1].y
                        = Col(LookedUp(call'), "Passenger_Load_Factor")]_vars

\* the load factor of a pair without rows, asked for while the canvas holds
\* the figure of another pair, which stays
C20_Witness ==
    /\ call.fn = "analyze_city_pair_load_factor"
    /\ empty(LookedUp(call))
    /\ Len(popups) = 1
    /\ Len(canvas) = 1
    /\ canvas[1].title[1] = "Passenger Load Factor for"
    /\ canvas[1].title[2] # call.args[1]

(***************************************************************************)
(* The four top-N filters: sort_values(by=..., ascending=...).head(10).    *)
(*                                                                         *)
(* sort_values is called without `kind`, so pandas sorts with its default, *)
(* quicksort, which pandas documents as not stable ("mergesort and stable  *)
(* are the only stable algorithms"): the order of rows with equal keys is  *)
(* whatever the numpy build in use produces. sort_values is therefore the  *)
(* set of all orderings of the rows that are sorted by the key.            *)
(***************************************************************************)
TopN == 10

RECURSIVE Perms(_)
\* the orderings of a finite set
Perms(S) ==
    IF S = {} THEN {<<>>}
    ELSE UNION {{<<x>> \o p : p \in Perms(S \ {x})} : x \in S}

Min(S) == CHOOSE x \in S : \A y \in S : x <= y

Max(S) == CHOOSE x \in S : \A y \in S : x >= y

sort_values(df, by, ascending) ==
    LET n == Len(df.rows)
        Group(v) == {i \in 1..n : df.rows[i][by] = v}
        RECURSIVE Orders(_)
        Orders(keys) ==
            IF keys = {} THEN {<<>>}
            ELSE LET v == IF ascending THEN Min(keys) ELSE Max(keys)
                 IN  {p \o rest : p \in Perms(Group(v)), rest \in Orders(keys \ {v})}
    IN  {DataFrame(df.columns, [k \in 1..n |-> df.rows[o[k]]]) :
            o \in Orders({df.rows[i][by] : i \in 1..n})}

\* DataFrame.head(n)
head(df, n) ==
    DataFrame(df.columns, SubSeq(df.rows, 1, IF Len(df.rows) < n THEN Len(df.rows) ELSE n))

\* each filter is the set of tables its call may return
filter_most_passenger_trips(df) ==
    {head(sorted_data, TopN) : sorted_data \in sort_values(df, "Passenger_Trips", FALSE)}

filter_most_aircraft_trips(df) ==
    {head(sorted_data, TopN) : sorted_data \in sort_values(df, "Aircraft_Trips", FALSE)}

filter_highest_load_factor(df) ==
    {head(sorted_data, TopN) : sorted_data \in sort_values(df, "Passenger_Load_Factor", FALSE)}

\* the lowest-load-factor filter with the sort direction of the other three
filter_lowest_load_factor_descending(df) ==
    {head(sorted_data, TopN) : sorted_data \in sort_values(df, "Passenger_Load_Factor", FALSE)}

filter_lowest_load_factor(df) ==
    {head(sorted_data, TopN) : sorted_data \in sort_values(df, "Passenger_Load_Factor", TRUE)}

FilterMostPassengerTrips ==
    \E top \in filter_most_passenger_trips(data) :
        Called("filter_most_passenger_trips", <<>>, Eff(Return(top), <<>>, canvas))

FilterMostAircraftTrips ==
    \E top \in filter_most_aircraft_trips(data) :
        Called("filter_most_aircraft_trips", <<>>, Eff(Return(top), <<>>, canvas))

FilterHighestLoadFactor ==
    \E top \in filter_highest_load_factor(data) :
        Called("filter_highest_load_factor", <<>>, Eff(Return(top), <<>>, canvas))

FilterLowestLoadFactor ==
    \E top \in filter_lowest_load_factor(data) :
        Called("filter_lowest_load_factor", <<>>, Eff(Return(top), <<>>, canvas))

(***************************************************************************)
(* The tables of the top-N specification: up to MaxSortRows rows (more     *)
(* than TopN), whose three sort columns rise, fall or cycle along the      *)
(* table, each value carried by one row or by two.                         *)
(***************************************************************************)
\* most rows of a table in the top-N specification
MaxSortRows == 11

\* how many rows carry the same value
TieSizes == {1, 2}

\* the value of row i of n under a pattern <<kind, g>>
PatternValue(pat, n, i) ==
    LET g == pat[2]
        k == (n + g - 1) \div g
    IN  CASE pat[1] = "up" -> (i - 1) \div g
          [] pat[1] = "down" -> (n - i) \div g
          [] OTHER -> (i - 1) % k

Patterns == {<<kind, g>> : kind \in {"up", "down", "cycle"}, g \in TieSizes}

Rotate(pat) ==
    <<CASE pat[1] = "up" -> "down" [] pat[1] = "down" -> "cycle" [] OTHER -> "up", pat[2]>>

SortTable(n, pat) ==
    DataFrame(Columns,
        RangeIndexed([i \in 1..n |->
            MkRow(Adelaide, Brisbane, "Jan-20", 0,
                  PatternValue(pat, n, i),
                  PatternValue(Rotate(pat), n, i),
                  PatternValue(Rotate(Rotate(pat)), n, i),
                  100)]))

SortTables == {SortTable(n, pat) : n \in 0..MaxSortRows, pat \in Patterns}

InitTopN == InitWith(SortTables)

NextTopN ==
    \/ FilterMostPassengerTrips
    \/ FilterMostAircraftTrips
    \/ FilterHighestLoadFactor
    \/ FilterLowestLoadFactor

SpecTopN == InitTopN /\ [][NextTopN]_vars

(***************************************************************************)
(* Claims about the top-N filters.                                         *)
(***************************************************************************)
\* the column a filter sorts by and whether it sorts ascending
SortColumn ==
    CASE call.fn = "filter_most_passenger_trips" -> "Passenger_Trips"
      [] call.fn = "filter_most_aircraft_trips" -> "Aircraft_Trips"
      [] OTHER -> "Passenger_Load_Factor"

SortAscending == call.fn = "filter_lowest_load_factor"

IsFilterCall ==
    call.fn \in {"filter_most_passenger_trips", "filter_most_aircraft_trips",
                 "filter_highest_load_factor", "filter_lowest_load_factor"}

\* a comes no later than b in the filter's order
NoLater(a, b) == IF SortAscending THEN a <= b ELSE a >= b

\* C3: each top-N filter returns min(10, |t|) distinct rows of the table, in
\* non-increasing order of its column (non-decreasing for the lowest load
\* factor), and no row left out has a strictly larger (smaller) value than a
\* returned row.
C3_TopNSortedPrefix ==
    IsFilterCall =>
        LET res == ret.val.rows
            kept == {res[k]["idx"] : k \in 1..Len(res)}
        IN  /\ ret.kind = "return"
            /\ Len(res) = (IF Len(data.rows) < 10 THEN Len(data.rows) ELSE 10)
            /\ Cardinality(kept) = Len(res)
            /\ \A k \in 1..Len(res) : \E i \in 1..Len(data.rows) : data.rows[i] = res[k]
            /\ \A k \in 1..Len(res), l \in 1..Len(res) :
                    k < l => NoLater(res[k][SortColumn], res[l][SortColumn])
            /\ \A i \in 1..Len(data.rows), k \in 1..Len(res) :
                    data.rows[i]["idx"] \notin kept =>
                        NoLater(res[k][SortColumn], data.rows[i][SortColumn])

\* a filter has cut a table of more than ten rows down to ten
C3_Witness ==
    /\ IsFilterCall
    /\ Len(data.rows) > 10
    /\ Len(ret.val.rows) = 10
    /\ ret.val.rows[1][SortColumn] # ret.val.rows[10][SortColumn]

\* C4: rows with equal values of the sort column come out in the table's
\* row order, and of the rows tied at the cut-off the earlier ones are kept.
C4_TopNStable ==
    IsFilterCall =>
        LET res == ret.val.rows
            kept == {res[k]["idx"] : k \in 1..Len(res)}
        IN  /\ \A k \in 1..Len(res), l \in 1..Len(res) :
                    (k < l /\ res[k][SortColumn] = res[l][SortColumn]) =>
                        res[k]["idx"] < res[l]["idx"]
            /\ \A i \in 1..Len(data.rows), k \in 1..Len(res) :
                    (data.rows[i]["idx"] \notin kept
                     /\ data.rows[i][SortColumn] = res[k][SortColumn]) =>
                        res[k]["idx"] < data.rows[i]["idx"]

(***************************************************************************)
(* calculate_city_stats.                                                   *)
(***************************************************************************)
\* a Python str that is not a city name, and the two kinds of float
PyStr(s) == [tag |-> "str", s |-> s]

NaN == [tag |-> "float", num |-> 0, den |-> 0]

RECURSIVE GCD(_, _)
GCD(a, b) == IF b = 0 THEN a ELSE GCD(b, a % b)

\* the float n / d (d > 0, n >= 0), held exactly
Float(n, d) == [tag |-> "float", num |-> n \div GCD(n, d), den |-> d \div GCD(n, d)]

RECURSIVE SumSeq(_)
SumSeq(xs) == IF xs = <<>> THEN 0 ELSE Head(xs) + SumSeq(Tail(xs))

\* Series.mean() of a non-empty numeric column
mean(xs) == Float(SumSeq(xs), Len(xs))

\* the code point of a character
Ord(c) ==
    CASE c = " " -> 32 [] c = "-" -> 45
      [] c = "A" -> 65 [] c = "B" -> 66 [] c = "C" -> 67 [] c = "D" -> 68
      [] c = "N" -> 78 [] c = "R" -> 82 [] c = "a" -> 97 [] c = "b" -> 98 [] c = "d" -> 100
      [] c = "o" -> 111 [] c = "r" -> 114 [] c = "t" -> 116

RECURSIVE StrLess(_, _)
\* a < b for two Python strings
StrLess(a, b) ==
    IF b = <<>> THEN FALSE
    ELSE IF a = <<>> THEN TRUE
    ELSE IF Head(a) # Head(b) THEN Ord(Head(a)) < Ord(Head(b))
    ELSE StrLess(Tail(a), Tail(b))

\* Series.mode(): the most frequent values, sorted
mode(xs) ==
    LET Count(v) == Cardinality({i \in 1..Len(xs) : xs[i] = v})
        values == {xs[i] : i \in 1..Len(xs)}
        modes == {v \in values : \A w \in values : Count(w) <= Count(v)}
        RECURSIVE Sorted(_)
        Sorted(S) ==
            IF S = {} THEN <<>>
            ELSE LET least == CHOOSE v \in S : \A w \in S \ {v} : StrLess(v, w)
                 IN  <<least>> \o Sorted(S \ {least})
    IN  Sorted(modes)

NoData == <<"N", "o", " ", "d", "a", "t", "a">>

\* series[label] of a Series with the labels 0, 1, 2, ...: KeyError when no
\* row has the label
getitem(series, label) ==
    IF label + 1 \in 1..Len(series) THEN Return(series[label + 1]) ELSE Raise("KeyError")

\* calculate_city_stats whose average is taken over the whole dataset
calculate_city_stats_unfiltered_mean(city, dataset) ==
    IF "City1" \notin dataset.columns THEN Raise("KeyError")
    ELSE
    LET city_data == BoolIndex(dataset,
                        [i \in 1..Len(dataset.rows) |-> dataset.rows[i]["City1"] = city])
        total_trips == Len(city_data.rows)
        total_trips_is_zero == total_trips = 0
    IN  IF "City2" \notin city_data.columns THEN Raise("KeyError")
        ELSE
        LET city_data_is_empty == Col(city_data, "City2") = <<>>
        IN  IF ~total_trips_is_zero /\ "Passenger_Load_Factor" \notin city_data.columns
            THEN Raise("KeyError")
            ELSE
            LET avg_load_factor ==
                    IF total_trips_is_zero THEN PyStr("nan")
                    ELSE mean(Col(dataset, "Passenger_Load_Factor"))
                most_traveled_to_city ==
                    IF ~city_data_is_empty THEN getitem(mode(Col(city_data, "City2")), 0)
                    ELSE Return(NoData)
            IN  IF most_traveled_to_city.kind = "raise" THEN most_traveled_to_city
                ELSE Return([total_trips |-> total_trips,
                             avg_load_factor |-> avg_load_factor,
                             most_traveled_to_city |-> most_traveled_to_city.val])

\* calculate_city_stats whose emptiness test looks at the whole dataset
calculate_city_stats_dataset_empty(city, dataset) ==
    IF "City1" \notin dataset.columns THEN Raise("KeyError")
    ELSE
    LET city_data == BoolIndex(dataset,
                        [i \in 1..Len(dataset.rows) |-> dataset.rows[i]["City1"] = city])
        total_trips == Len(city_data.rows)
        total_trips_is_zero == total_trips = 0
    IN  IF "City2" \notin city_data.columns THEN Raise("KeyError")
        ELSE
        LET city_data_is_empty == Col(dataset, "City2") = <<>>
        IN  IF ~total_trips_is_zero /\ "Passenger_Load_Factor" \notin city_data.columns
            THEN Raise("KeyError")
            ELSE
            LET avg_load_factor ==
                    IF total_trips_is_zero THEN PyStr("nan")
                    ELSE mean(Col(city_data, "Passenger_Load_Factor"))
                most_traveled_to_city ==
                    IF ~city_data_is_empty THEN getitem(mode(Col(city_data, "City2")), 0)
                    ELSE Return(NoData)
            IN  IF most_traveled_to_city.kind = "raise" THEN most_traveled_to_city
                ELSE Return([total_trips |-> total_trips,
                             avg_load_factor |-> avg_load_factor,
                             most_traveled_to_city |-> most_traveled_to_city.val])

calculate_city_stats(city, dataset) ==
    IF "City1" \notin dataset.columns THEN Raise("KeyError")
    ELSE
    LET city_data == BoolIndex(dataset,
                        [i \in 1..Len(dataset.rows) |-> dataset.rows[i]["City1"] = city])
        total_trips == Len(city_data.rows)
        total_trips_is_zero == total_trips = 0
    IN  IF "City2" \notin city_data.columns THEN Raise("KeyError")
        ELSE
        LET city_data_is_empty == Col(city_data, "City2") = <<>>
        IN  IF ~total_trips_is_zero /\ "Passenger_Load_Factor" \notin city_data.columns
            THEN Raise("KeyError")
            ELSE
            LET avg_load_factor ==
                    IF total_trips_is_zero THEN PyStr("nan")
                    ELSE mean(Col(city_data, "Passenger_Load_Factor"))
                most_traveled_to_city ==
                    IF ~city_data_is_empty THEN getitem(mode(Col(city_data, "City2")), 0)
                    ELSE Return(NoData)
            IN  IF most_traveled_to_city.kind = "raise" THEN most_traveled_to_city
                ELSE Return([total_trips |-> total_trips,
                             avg_load_factor |-> avg_load_factor,
                             most_traveled_to_city |-> most_traveled_to_city.val])

CalculateCityStats(city, dataset) ==
    Called("calculate_city_stats", <<city, dataset>>,
           Eff(calculate_city_stats(city, dataset), <<>>, canvas))

(***************************************************************************)
(* The tables of the statistics specification, and the datasets without    *)
(* the required columns that a caller may pass (the first is the one of    *)
(* test_invalid_dataset_structure).                                        *)
(***************************************************************************)
\* most rows of a table in the statistics specification
MaxStatsRows == 3

StatsRows ==
    {MkRow(c1, c2, "Jan-20", 0, 10, 1, lf, 100) :
        c1 \in TableCities, c2 \in TableCities, lf \in {50, 75}}

StatsTables ==
    {DataFrame(Columns, RangeIndexed(rws)) : rws \in SeqsUpTo(StatsRows, MaxStatsRows)}

InvalidDatasets ==
    {DataFrame({"City", "Load"}, <<>>),
     DataFrame({"City1", "City2"},
               RangeIndexed(<<("City1" :> Adelaide) @@ ("City2" :> Brisbane)>>)),
     DataFrame({"City1", "Passenger_Load_Factor"},
               RangeIndexed(<<("City1" :> Adelaide) @@ ("Passenger_Load_Factor" :> 50)>>))}

StatsCities == {Adelaide, Brisbane, <<"a", "d">>}

InitStats == InitWith(StatsTables)

NextStats ==
    \E city \in StatsCities, dataset \in {data} \cup InvalidDatasets :
        CalculateCityStats(city, dataset)

SpecStats == InitStats /\ [][NextStats]_vars

(***************************************************************************)
(* Claims about calculate_city_stats.                                      *)
(***************************************************************************)
RequiredColumns == {"City1", "City2", "Passenger_Load_Factor"}

\* the positions of the rows of the dataset passed whose City1 is the city passed
CityRows ==
    LET city == call.args[1]
        dataset == call.args[2]
    IN  {i \in 1..Len(dataset.rows) : dataset.rows[i]["City1"] = city}

RECURSIVE LoadFactorSum(_)
\* the sum of Passenger_Load_Factor over the rows at the given positions
LoadFactorSum(S) ==
    IF S = {} THEN 0
    ELSE LET i == CHOOSE j \in S : TRUE
         IN  call.args[2].rows[i]["Passenger_Load_Factor"] + LoadFactorSum(S \ {i})

\* how many rows of the city go to the destination
Frequency(dest) == Cardinality({i \in CityRows : call.args[2].rows[i]["City2"] = dest})

\* C5: for a city with at least one row, total_trips is the number of its
\* rows, avg_load_factor is the arithmetic mean of Passenger_Load_Factor over
\* exactly those rows (the row's own value when there is one), and
\* most_traveled_to_city is a City2 value of greatest frequency among them.
C5_StatsOfCityWithRows ==
    (/\ call.fn = "calculate_city_stats"
     /\ RequiredColumns \subseteq call.args[2].columns
     /\ CityRows # {}) =>
        /\ ret.kind = "return"
        /\ ret.val.total_trips = Cardinality(CityRows)
        /\ ret.val.avg_load_factor.tag = "float"
        /\ ret.val.avg_load_factor.den > 0
        /\ ret.val.avg_load_factor.num * Cardinality(CityRows)
                = LoadFactorSum(CityRows) * ret.val.avg_load_factor.den
        /\ \A i \in CityRows :
                Cardinality(CityRows) = 1 =>
                    ret.val.avg_load_factor
                        = [tag |-> "float",
                           num |-> call.args[2].rows[i]["Passenger_Load_Factor"],
                           den |-> 1]
        /\ Frequency(ret.val.most_traveled_to_city) > 0
        /\ \A i \in CityRows :
                Frequency(call.args[2].rows[i]["City2"])
                    <= Frequency(ret.val.most_traveled_to_city)

\* statistics of a city with two rows of different load factors and
\* destinations, in a table that also holds a row of another city
C5_Witness ==
    /\ call.fn = "calculate_city_stats"
    /\ call.args[2] = data
    /\ Cardinality(CityRows) = 2
    /\ Len(data.rows) = 3
    /\ ret.kind = "return"
    /\ ret.val.avg_load_factor.den = 2
    /\ \E i \in CityRows : data.rows[i]["City2"] # ret.val.most_traveled_to_city
    /\ \E i \in 1..3 : i \notin CityRows /\ data.rows[i]["Passenger_Load_Factor"] = 75

\* C6: for a city with no row in the table, calculate_city_stats returns
\* total_trips = 0, the float NaN as avg_load_factor and "No data" as
\* most_traveled_to_city, and raises nothing.
C6_StatsOfCityWithoutRows ==
    (/\ call.fn = "calculate_city_stats"
     /\ RequiredColumns \subseteq call.args[2].columns
     /\ CityRows = {}) =>
        /\ ret.kind = "return"
        /\ ret.val.total_trips = 0
        /\ ret.val.avg_load_factor = NaN
        /\ ret.val.most_traveled_to_city = NoData

\* C7: on a table that lacks a required column calculate_city_stats raises
\* ValueError and returns no statistics.
C7_StatsInvalidSchema ==
    (/\ call.fn = "calculate_city_stats"
     /\ ~(RequiredColumns \subseteq call.args[2].columns)) =>
        /\ ret.kind = "raise"
        /\ ret.exc = "ValueError"

(***************************************************************************)
(* apply_filters.  `values` holds the four input boxes of the data         *)
(* exploration window: two city names and two date texts.                  *)
(***************************************************************************)
\* the texts a date box may hold: nothing, a date, or something that is none
DateTexts == {"", "2020-01-01", "2020-02-01", "abc"}

\* whether pandas can read the text as a Timestamp
IsDate(text) == text \in {"2020-01-01", "2020-02-01"}

\* the Timestamp pandas reads from a text that is a date
Timestamp(text) == CASE text = "2020-01-01" -> 0 [] text = "2020-02-01" -> 31

\* the first day of a month, as the loader derives it from Month
MonthStart(month) == CASE month = "Jan-20" -> 0 [] month = "Feb-20" -> 31

\* apply_filters with `or` written for `and` in the date test
apply_filters_either_bound(values) ==
    LET by_city1 ==
            IF values["-FILTER_CITY1-"] # <<>>
            THEN BoolIndex(data, [i \in 1..Len(data.rows) |->
                        data.rows[i]["City1"] = values["-FILTER_CITY1-"]])
            ELSE data
        by_city2 ==
            IF values["-FILTER_CITY2-"] # <<>>
            THEN BoolIndex(by_city1, [i \in 1..Len(by_city1.rows) |->
                        by_city1.rows[i]["City2"] = values["-FILTER_CITY2-"]])
            ELSE by_city1
    IN  IF values["-DATE_START-"] # "" \/ values["-DATE_END-"] # ""
        THEN IF ~IsDate(values["-DATE_START-"]) \/ ~IsDate(values["-DATE_END-"])
             THEN Raise("TypeError")
             ELSE Return(BoolIndex(by_city2, [i \in 1..Len(by_city2.rows) |->
                        /\ by_city2.rows[i]["Date"] >= Timestamp(values["-DATE_START-"])
                        /\ by_city2.rows[i]["Date"] <= Timestamp(values["-DATE_END-"])]))
        ELSE Return(by_city2)

\* apply_filters with the City 2 criterion applied to `data`, not to the rows
\* the City 1 criterion left
apply_filters_unchained(values) ==
    LET by_city1 ==
            IF values["-FILTER_CITY1-"] # <<>>
            THEN BoolIndex(data, [i \in 1..Len(data.rows) |->
                        data.rows[i]["City1"] = values["-FILTER_CITY1-"]])
            ELSE data
        by_city2 ==
            IF values["-FILTER_CITY2-"] # <<>>
            THEN BoolIndex(data, [i \in 1..Len(data.rows) |->
                        data.rows[i]["City2"] = values["-FILTER_CITY2-"]])
            ELSE by_city1
    IN  IF values["-DATE_START-"] # "" /\ values["-DATE_END-"] # ""
        THEN IF ~IsDate(values["-DATE_START-"]) \/ ~IsDate(values["-DATE_END-"])
             THEN Raise("TypeError")
             ELSE Return(BoolIndex(by_city2, [i \in 1..Len(by_city2.rows) |->
                        /\ by_city2.rows[i]["Date"] >= Timestamp(values["-DATE_START-"])
                        /\ by_city2.rows[i]["Date"] <= Timestamp(values["-DATE_END-"])]))
        ELSE Return(by_city2)

\* Comparing the datetime64 column Date with a str makes pandas read the str
\* as a Timestamp; with a str that is no date, >= and <= raise TypeError
\* ("Invalid comparison between dtype=datetime64[ns] and str").
apply_filters(values) ==
    LET by_city1 ==
            IF values["-FILTER_CITY1-"] # <<>>
            THEN BoolIndex(data, [i \in 1..Len(data.rows) |->
                        data.rows[i]["City1"] = values["-FILTER_CITY1-"]])
            ELSE data
        by_city2 ==
            IF values["-FILTER_CITY2-"] # <<>>
            THEN BoolIndex(by_city1, [i \in 1..Len(by_city1.rows) |->
                        by_city1.rows[i]["City2"] = values["-FILTER_CITY2-"]])
            ELSE by_city1
    IN  IF values["-DATE_START-"] # "" /\ values["-DATE_END-"] # ""
        THEN IF ~IsDate(values["-DATE_START-"]) \/ ~IsDate(values["-DATE_END-"])
             THEN Raise("TypeError")
             ELSE Return(BoolIndex(by_city2, [i \in 1..Len(by_city2.rows) |->
                        /\ by_city2.rows[i]["Date"] >= Timestamp(values["-DATE_START-"])
                        /\ by_city2.rows[i]["Date"] <= Timestamp(values["-DATE_END-"])]))
        ELSE Return(by_city2)

ApplyFilters(values) ==
    Called("apply_filters", <<values>>, Eff(apply_filters(values), <<>>, canvas))

\* most rows of a table in the composite-filter specification
MaxFilterRows == 2

FilterRows ==
    {MkRow(c1, c2, month, MonthStart(month), 10, 1, 50, 100) :
        c1 \in TableCities, c2 \in TableCities, month \in {"Jan-20", "Feb-20"}}

FilterTables ==
    {DataFrame(Columns, RangeIndexed(rws)) : rws \in SeqsUpTo(FilterRows, MaxFilterRows)}

\* what the four input boxes may hold
FilterValues ==
    {("-FILTER_CITY1-" :> c1) @@ ("-FILTER_CITY2-" :> c2)
        @@ ("-DATE_START-" :> ds) @@ ("-DATE_END-" :> de) :
        c1 \in {<<>>, Adelaide}, c2 \in {<<>>, Brisbane},
        ds \in DateTexts, de \in DateTexts}

InitFilters == InitWith(FilterTables)

NextFilters == \E values \in FilterValues : ApplyFilters(values)

SpecFilters == InitFilters /\ [][NextFilters]_vars

(***************************************************************************)
(* Claims about apply_filters.                                             *)
(***************************************************************************)
\* the labels of the rows a returned table holds, in its order
Labels(df) == [k \in 1..Len(df.rows) |-> df.rows[k]["idx"]]

RECURSIVE Ascending(_)
\* the members of a set of numbers in increasing order
Ascending(S) ==
    IF S = {} THEN <<>> ELSE <<Min(S)>> \o Ascending(S \ {Min(S)})

\* the labels of the rows of the table that pass the city criteria that are set
PassCities(values) ==
    {data.rows[i]["idx"] : i \in
        {j \in 1..Len(data.rows) :
            /\ values["-FILTER_CITY1-"] # <<>> =>
                    data.rows[j]["City1"] = values["-FILTER_CITY1-"]
            /\ values["-FILTER_CITY2-"] # <<>> =>
                    data.rows[j]["City2"] = values["-FILTER_CITY2-"]}}

\* the labels of the rows whose Date lies between the two texts, ends included
PassDates(values) ==
    {data.rows[i]["idx"] : i \in
        {j \in 1..Len(data.rows) :
            /\ Timestamp(values["-DATE_START-"]) <= data.rows[j]["Date"]
            /\ data.rows[j]["Date"] <= Timestamp(values["-DATE_END-"])}}

\* C8: apply_filters returns exactly the rows of the table, in its order,
\* that meet every criterion that is set: City1, City2, and, when both date
\* bounds are set, dateStart <= Date <= dateEnd, both ends included.
C8_ApplyFiltersExactRows ==
    call.fn = "apply_filters" =>
        LET values == call.args[1]
            dated == values["-DATE_START-"] # "" /\ values["-DATE_END-"] # ""
        IN  /\ ret.kind = "return"
            /\ \A k \in 1..Len(ret.val.rows) :
                    \E i \in 1..Len(data.rows) : data.rows[i] = ret.val.rows[k]
            /\ ~dated => Labels(ret.val) = Ascending(PassCities(values))
            /\ dated => Labels(ret.val)
                            = Ascending(PassCities(values) \cap PassDates(values))

\* C9: with exactly one date bound set, apply_filters applies no date
\* restriction: it returns what the same call with both bounds unset returns,
\* the rows that pass the city criteria.
C9_SingleDateBoundIgnored ==
    (/\ call.fn = "apply_filters"
     /\ (call.args[1]["-DATE_START-"] = "") # (call.args[1]["-DATE_END-"] = "")) =>
        LET values == call.args[1]
            undated == [values EXCEPT !["-DATE_START-"] = "", !["-DATE_END-"] = ""]
        IN  /\ ret = apply_filters(undated)
            /\ ret.kind = "return"
            /\ Labels(ret.val) = Ascending(PassCities(values))

\* only the start date is set, and a row dated before it is returned
C9_Witness ==
    /\ call.fn = "apply_filters"
    /\ call.args[1]["-DATE_START-"] = "2020-02-01"
    /\ call.args[1]["-DATE_END-"] = ""
    /\ call.args[1]["-FILTER_CITY1-"] # <<>>
    /\ ret.kind = "return"
    /\ Len(ret.val.rows) = 1
    /\ ret.val.rows[1]["Date"] = 0
    /\ Len(data.rows) = 2

(***************************************************************************)
(* load_and_clean_data.                                                    *)
(***************************************************************************)
IsUpper(c) == Ord(c) >= 65 /\ Ord(c) <= 90

IsLower(c) == Ord(c) >= 97 /\ Ord(c) <= 122

Upper(c) ==
    CASE c = "a" -> "A" [] c = "b" -> "B" [] c = "d" -> "D" [] c = "r" -> "R"
      [] OTHER -> c

Lower(c) ==
    CASE c = "A" -> "a" [] c = "B" -> "b" [] c = "D" -> "d" [] c = "R" -> "r"
      [] OTHER -> c

RECURSIVE TitleFrom(_, _)
\* str.title() of s, given whether the character before s is a letter
TitleFrom(s, after_letter) ==
    IF s = <<>> THEN <<>>
    ELSE LET c == Head(s)
             letter == IsUpper(c) \/ IsLower(c)
         IN  <<IF ~letter THEN c ELSE IF after_letter THEN Lower(c) ELSE Upper(c)>>
                \o TitleFrom(Tail(s), letter)

\* str.title(): the first letter of each run of letters upper, the rest lower
title(s) == TitleFrom(s, FALSE)

\* whether strptime reads the text with the format '%b-%y' (the month
\* abbreviation is matched without regard to case)
MatchesFormat(text) == text \in {"Jan-20", "Feb-20", "jan-20"}

\* the Timestamp strptime reads from a text that matches: day 1 of the month
strptime(text) == CASE text \in {"Jan-20", "jan-20"} -> 0 [] text = "Feb-20" -> 31

\* pd.read_csv
read_csv(file) ==
    IF ~file.exists THEN Raise("FileNotFoundError")
    ELSE IF file.header = {} THEN Raise("EmptyDataError")
    ELSE Return(DataFrame(file.header, RangeIndexed(file.lines)))

\* NaT, the missing Timestamp
NaT == [tag |-> "NaT"]

\* whether read_csv reads the cell as missing (NaN): an empty field is; of the
\* files of the model only Month cells may be empty, and the table keeps the
\* empty text in the place of the NaN
isna(text) == text = ""

\* pd.to_datetime(..., format='%b-%y') of one cell: a missing cell becomes NaT
\* and raises nothing; any other cell must match the format
to_datetime(text) ==
    IF isna(text) THEN Return(NaT)
    ELSE IF ~MatchesFormat(text) THEN Raise("ValueError")
    ELSE Return(strptime(text))

\* lines 36-47: what the try block does, an exception being its outcome
load_and_clean_try(file) ==
    LET read == read_csv(file)
    IN  IF read.kind = "raise" THEN read
        ELSE IF "City1" \notin read.val.columns \/ "City2" \notin read.val.columns
        THEN Raise("KeyError")
        ELSE IF "Month" \notin read.val.columns THEN Raise("KeyError")
        ELSE IF \E i \in 1..Len(read.val.rows) :
                    to_datetime(read.val.rows[i]["Month"]).kind = "raise"
        THEN Raise("ValueError")
        ELSE Return(DataFrame(read.val.columns \cup {"Date"},
                [i \in 1..Len(read.val.rows) |->
                    ("City1" :> title(read.val.rows[i]["City1"]))
                    @@ ("City2" :> title(read.val.rows[i]["City2"]))
                    @@ ("Date" :> to_datetime(read.val.rows[i]["Month"]).val)
                    @@ read.val.rows[i]]))

\* the function: each except clause prints and falls off the end, so the
\* call returns None
load_and_clean_data(file) ==
    LET tried == load_and_clean_try(file)
    IN  IF tried.kind = "return" THEN [ret |-> tried, stdout |-> <<>>]
        ELSE IF tried.exc = "FileNotFoundError"
        THEN [ret |-> Return(None), stdout |-> <<[msg |-> "File not found."]>>]
        ELSE IF tried.exc = "EmptyDataError"
        THEN [ret |-> Return(None), stdout |-> <<[msg |-> "File is empty."]>>]
        ELSE [ret |-> Return(None),
              stdout |-> <<[msg |-> "An error occurred: {e}", e |-> tried.exc]>>]

LoadAndCleanData(filepath) ==
    LET done == load_and_clean_data(disk[filepath])
    IN  /\ call' = [fn |-> "load_and_clean_data", args |-> <<filepath>>]
        /\ ret' = done.ret
        /\ stdout' = done.stdout
        /\ popups' = <<>>
        /\ UNCHANGED <<data, canvas, disk, pc, windows, shown, window_read>>

(***************************************************************************)
(* The files of the loader specification.                                  *)
(***************************************************************************)
\* most data lines of a file
MaxFileRows == 2

FileColumns == Columns \ {"Date"}

\* city names as a file may spell them
RawCities == {<<"A", "d">>, <<"a", "d">>, <<"b", "R">>}

\* the Month cells of a file: three that match, one that does not, an empty one
MonthTexts == {"Jan-20", "Feb-20", "jan-20", "2020-01", ""}

FileLines ==
    {("City1" :> c1) @@ ("City2" :> <<"B", "r">>) @@ ("Month" :> month)
        @@ ("Passenger_Trips" :> 10) @@ ("Aircraft_Trips" :> 1)
        @@ ("Passenger_Load_Factor" :> 50) @@ ("Distance_GC_(km)" :> 100) :
        c1 \in RawCities, month \in MonthTexts}

CsvFiles == {File(FileColumns, lines) : lines \in SeqsUpTo(FileLines, MaxFileRows)}

\* before final-assignment.py has run its line 9, `data` is not bound
Unbound == [tag |-> "Unbound"]

InitLoader ==
    /\ data = Unbound
    /\ call = NoCall
    /\ ret = Return(None)
    /\ popups = <<>>
    /\ canvas = <<>>
    /\ stdout = <<>>
    /\ pc = "direct"
    /\ windows = <<>>
    /\ shown = <<>>
    /\ window_read = NoRead
    /\ \E file \in CsvFiles \cup {Missing, File({}, <<>>)} :
            disk = [path \in Paths |->
                        CASE path = "dom_city_pair.csv" -> file
                          [] path = "empty_file.csv" -> File({}, <<>>)
                          [] OTHER -> Missing]

NextLoader == \E filepath \in Paths : LoadAndCleanData(filepath)

SpecLoader == InitLoader /\ [][NextLoader]_vars

(***************************************************************************)
(* Claims about load_and_clean_data.                                       *)
(***************************************************************************)
\* C10: load_and_clean_data called with a path at which there is no file
\* raises FileNotFoundError to its caller; it does not return.
C10_MissingFileRaises ==
    (call.fn = "load_and_clean_data" /\ ~disk[call.args[1]].exists) =>
        /\ ret.kind = "raise"
        /\ ret.exc = "FileNotFoundError"

\* C11: load_and_clean_data called on a file without rows (a file of zero
\* bytes, or one that holds only the header line) raises EmptyDataError to
\* its caller; it never returns a table of zero rows.
C11_NoRowsRaisesEmptyData ==
    (/\ call.fn = "load_and_clean_data"
     /\ disk[call.args[1]].exists
     /\ disk[call.args[1]].lines = <<>>) =>
        /\ ret.kind = "raise"
        /\ ret.exc = "EmptyDataError"

\* whether a Month cell has the form three-letter month, dash, two-digit year
NamesMonth(text) == text \in {"Jan-20", "Feb-20", "jan-20"}

\* the day number of the first day of the month a Month cell names
FirstDayOfNamedMonth(text) ==
    CASE text \in {"Jan-20", "jan-20"} -> 0 [] text = "Feb-20" -> 31

\* the file a call of the loader was pointed at
FileRead == disk[call.args[1]]

\* C12: when some Month value of the file does not have the form
\* three-letter month, dash, two-digit year, the whole load fails (the call
\* raises, or ends without a value, which is how this loader reports a
\* failure it has caught): no table is returned.
C12_MalformedMonthFailsWholeLoad ==
    (/\ call.fn = "load_and_clean_data"
     /\ FileRead.exists
     /\ \E i \in 1..Len(FileRead.lines) : ~NamesMonth(FileRead.lines[i]["Month"])) =>
        \/ ret.kind = "raise"
        \/ ret.val = None

\* whether every letter of s that starts a run of letters is upper case and
\* every other letter lower case
TitleCased(s) ==
    \A i \in 1..Len(s) :
        LET starts == i = 1 \/ ~(IsUpper(s[i - 1]) \/ IsLower(s[i - 1]))
        IN  /\ IsUpper(s[i]) => starts
            /\ IsLower(s[i]) => ~starts

\* whether two strings differ at most in the case of their letters
SameButCase(s, t) ==
    /\ Len(s) = Len(t)
    /\ \A i \in 1..Len(s) : Lower(s[i]) = Lower(t[i])

\* C13: a load that returns a table returns one row per line of the file, in
\* the file's order (duplicates kept), whose cells are those of the line but
\* for City1 and City2, which are the line's in title case, and whose Date is
\* the first day of the month the line's Month names.
C13_LoadKeepsRowsTitlesDates ==
    (/\ call.fn = "load_and_clean_data"
     /\ ret.kind = "return"
     /\ ret.val # None) =>
        LET lines == FileRead.lines
            rws == ret.val.rows
        IN  /\ Len(rws) = Len(lines)
            /\ \A i \in 1..Len(rws) :
                    /\ rws[i]["idx"] = i - 1
                    /\ \A c \in FileRead.header \ {"City1", "City2"} :
                            rws[i][c] = lines[i][c]
                    /\ \A c \in {"City1", "City2"} :
                            /\ TitleCased(rws[i][c])
                            /\ SameButCase(rws[i][c], lines[i][c])
                    /\ NamesMonth(lines[i]["Month"])
                    /\ rws[i]["Date"] = FirstDayOfNamedMonth(lines[i]["Month"])

(***************************************************************************)
(* The script final-assignment.py, run from its first line: the load       *)
(* (line 9), the function definitions, the list of city pairs (line 259),  *)
(* the dashboard (line 969), its event loop (lines 992-1026) and the       *)
(* event loops of the six windows it opens.  No handler catches an         *)
(* exception: one raised by a call ends the script.                        *)
(***************************************************************************)
\* most data lines of the file the script is started on
MaxProgramRows == 2

\* DataFrame.values.tolist(): the rows as lists of cells, labels dropped
values_tolist(df) == [i \in 1..Len(df.rows) |-> [c \in df.columns |-> df.rows[i][c]]]

\* line 259 with an empty list in the place of a table that is missing
city_pairs_or_empty(table) ==
    IF table.tag = "None" THEN Return(<<>>)
    ELSE Return([i \in 1..Len(table.rows) |->
                    Format(table.rows[i]["City1"], table.rows[i]["City2"])])

\* line 259: the entries of the two list boxes; None cannot be subscripted
city_pairs(table) ==
    IF table.tag = "None" THEN Raise("TypeError")
    ELSE Return([i \in 1..Len(table.rows) |->
                    Format(table.rows[i]["City1"], table.rows[i]["City2"])])

\* a handler that binds the table it computed to the global name
data_after_rebound(table, result) ==
    IF result.kind = "return" /\ result.val.tag = "DataFrame" THEN result.val ELSE table

\* the table the global `data` names after a handler has run: no function
\* has a `global data` statement or assigns to a column of the table, and
\* boolean indexing, column selection, sort_values (inplace=False) and head
\* return new objects
data_after(table, result) == table

\* f"{x:.2f}": a float is rounded to hundredths; a str has no format code 'f'
format_2f(x) ==
    IF x.tag = "str" THEN Raise("ValueError")
    ELSE IF x.den = 0 THEN Return(PyStr("nan"))
    ELSE Return([tag |-> "str", hundredths |-> (200 * x.num + x.den) \div (2 * x.den)])

\* lines 884-906, the handler of Show Summary
show_summary(city_selected, table, cv) ==
    IF city_selected = <<>>
    THEN Eff(Return(None), <<[msg |-> "Please select a city to show the summary."]>>, cv)
    ELSE LET stats == calculate_city_stats(city_selected, table)
         IN  IF stats.kind = "raise" THEN Eff(stats, <<>>, cv)
             ELSE LET average_load == format_2f(stats.val.avg_load_factor)
                  IN  IF average_load.kind = "raise" THEN Eff(average_load, <<>>, cv)
                      ELSE Eff(Return(None),
                               <<[msg |-> "Total Trips / Average Load Factor / Most Traveled to City",
                                  total_trips |-> stats.val.total_trips,
                                  average_load |-> average_load.val,
                                  most_traveled |-> stats.val.most_traveled_to_city]>>,
                               cv)

\* analyze_distance_vs_load: the hexbin figure of the two columns.  On a
\* table without rows hexbin raises ValueError in matplotlib releases that
\* take the minimum of the empty array, and draws an empty plot in later ones.
analyze_distance_vs_load(table, cv) ==
    LET fig == [title |-> <<"Distance vs. Passenger Load Factor">>,
                lines |-> <<[label |-> <<>>,
                             x |-> Col(table, "Distance_GC_(km)"),
                             y |-> Col(table, "Passenger_Load_Factor")]>>]
        drawn == Eff(Return(None), <<>>, update_dashboard_canvas(fig, cv))
    IN  IF table.rows = <<>> THEN {drawn, Eff(Raise("ValueError"), <<>>, cv)} ELSE {drawn}

SubWindows ==
    {"trend_analysis_window", "compare_city_pairs_window", "load_factor_analysis_window",
     "data_exploration_window", "city_summary_window", "distance_vs_load_window"}

\* lines 1002-1023: the window an event key of the dashboard opens
window_of(event) ==
    CASE event = "-SHOW_TREND-" -> "trend_analysis_window"
      [] event = "-COMPARE_CITY_PAIRS-" -> "compare_city_pairs_window"
      [] event = "-analyze_city_pair_load_factor-" -> "load_factor_analysis_window"
      [] event = "-EXPLORE_DATA-" -> "data_exploration_window"
      [] event = "-CITY_SUMMARY-" -> "city_summary_window"
      [] event = "-DIST_VS_LOAD-" -> "distance_vs_load_window"

DashboardKeys ==
    {"-SHOW_TREND-", "-COMPARE_CITY_PAIRS-", "-analyze_city_pair_load_factor-",
     "-EXPLORE_DATA-", "-CITY_SUMMARY-", "-DIST_VS_LOAD-"}

\* an exception has reached the top level of the script
Aborted(exc) ==
    /\ pc' = "aborted"
    /\ call' = [fn |-> "<module>", args |-> <<>>]
    /\ ret' = Raise(exc)
    /\ popups' = <<>>
    /\ windows' = <<>>
    /\ UNCHANGED <<data, canvas, stdout, disk, shown, window_read>>

\* line 9: data = load_and_clean_data('dom_city_pair.csv')
Line9 ==
    /\ pc = "line 9"
    /\ LET done == load_and_clean_data(disk["dom_city_pair.csv"])
       IN  /\ call' = [fn |-> "load_and_clean_data", args |-> <<"dom_city_pair.csv">>]
           /\ ret' = done.ret
           /\ stdout' = done.stdout
           /\ data' = IF done.ret.kind = "return" THEN done.ret.val ELSE data
           /\ pc' = IF done.ret.kind = "return" THEN "line 67" ELSE "aborted"
    /\ popups' = <<>>
    /\ UNCHANGED <<canvas, disk, windows, shown, window_read>>

\* line 67: `def get_city_pair_data(city1, city2) -> pd.DataFrame` in a module
\* that never binds the name pd.  An interpreter that evaluates annotations
\* when the def statement runs raises NameError here; one that evaluates
\* them only on demand (Python 3.14 on) goes on.
Line67 ==
    /\ pc = "line 67"
    /\ \E eager \in BOOLEAN :
            IF eager THEN Aborted("NameError")
            ELSE /\ pc' = "line 259"
                 /\ UNCHANGED <<data, call, ret, popups, canvas, stdout, disk, windows, shown, window_read>>

Line259 ==
    /\ pc = "line 259"
    /\ IF city_pairs(data).kind = "raise" THEN Aborted(city_pairs(data).exc)
       ELSE /\ pc' = "line 969"
            /\ UNCHANGED <<data, call, ret, popups, canvas, stdout, disk, windows, shown, window_read>>

\* line 969: dashboard_window = create_dashboard_window()
Line969 ==
    /\ pc = "line 969"
    /\ pc' = "dashboard_window"
    /\ windows' = <<"dashboard_window">>
    /\ UNCHANGED <<data, call, ret, popups, canvas, stdout, disk, shown, window_read>>

\* lines 992-1026: one turn of the main event loop
DashboardRead(event) ==
    /\ pc = "dashboard_window"
    /\ call' = [fn |-> "dashboard_window.read", args |-> <<event>>]
    /\ ret' = Return(None)
    /\ popups' = <<>>
    /\ canvas' = <<>>
    /\ IF event \in {"WIN_CLOSED", "Exit"}
       THEN /\ pc' = "exited"
            /\ windows' = <<>>
            /\ shown' = <<>>
       ELSE /\ pc' = window_of(event)
            /\ windows' = Append(windows, window_of(event))
            /\ shown' = IF window_of(event) = "data_exploration_window"
                        THEN values_tolist(data) ELSE <<>>
    /\ window_read' = Read(pc, event, <<>>)
    /\ UNCHANGED <<data, stdout, disk>>

\* Back, or the window closed: the loop of the window ends, window.close()
SubWindowClose(event) ==
    /\ pc \in SubWindows
    /\ call' = [fn |-> "window.read", args |-> <<event>>]
    /\ ret' = Return(None)
    /\ popups' = <<>>
    /\ canvas' = <<>>
    /\ shown' = <<>>
    /\ pc' = "dashboard_window"
    /\ windows' = SubSeq(windows, 1, Len(windows) - 1)
    /\ window_read' = Read(pc, event, <<>>)
    /\ UNCHANGED <<data, stdout, disk>>

\* a handler of a window has made the call fn and shows `table`; an
\* exception the call raises ends the script
Handled(fn, args, eff, table) ==
    /\ call' = [fn |-> fn, args |-> args]
    /\ ret' = eff.ret
    /\ popups' = eff.popups
    /\ canvas' = eff.canvas
    /\ shown' = table
    /\ data' = data_after(data, eff.ret)
    /\ pc' = IF eff.ret.kind = "raise" THEN "aborted" ELSE pc
    /\ windows' = IF eff.ret.kind = "raise" THEN <<>> ELSE windows
    /\ UNCHANGED <<stdout, disk>>

\* a handler that only asks for the missing input; what sg.popup returns is
\* dropped
Prompt(text) ==
    Handled("sg.popup", <<>>, Eff(Return(None), <<[msg |-> text]>>, canvas), shown)

\* lines 706-714, with `or` for the `and` of line 709
ShowTrend_either_city(city1, city2, clicked) ==
    /\ pc = "trend_analysis_window"
    /\ window_read' = Read(pc, "Show Trend", <<city1, city2>>)
    /\ IF city1 # <<>> \/ city2 # <<>>
       THEN Handled("plot_passenger_trips_trend", <<city1, city2>>,
                    plot_passenger_trips_trend(get_city_pair_data(city1, city2),
                                               canvas, clicked),
                    shown)
       ELSE Prompt("Please enter both City 1 and City 2.")

\* lines 706-714
ShowTrend(city1, city2, clicked) ==
    /\ pc = "trend_analysis_window"
    /\ window_read' = Read(pc, "Show Trend", <<city1, city2>>)
    /\ IF city1 # <<>> /\ city2 # <<>>
       THEN Handled("plot_passenger_trips_trend", <<city1, city2>>,
                    plot_passenger_trips_trend(get_city_pair_data(city1, city2),
                                               canvas, clicked),
                    shown)
       ELSE Prompt("Please enter both City 1 and City 2.")

\* lines 769-776: each list box yields the list of its selected entries
Compare(selected1, selected2) ==
    /\ pc = "compare_city_pairs_window"
    /\ window_read' = Read(pc, "Compare", <<selected1, selected2>>)
    /\ IF selected1 = <<>> \/ selected2 = <<>>
       THEN Prompt("Please select two city pairs for comparison.")
       ELSE Handled("compare_two_city_pairs_passenegr_trip_trends",
                    <<selected1[1], selected2[1]>>,
                    compare_two_city_pairs_passenegr_trip_trends(selected1[1], selected2[1],
                                                                 canvas),
                    shown)

\* lines 822-830
AnalyzeLoadFactor(city1, city2) ==
    /\ pc = "load_factor_analysis_window"
    /\ window_read' = Read(pc, "Analyze Load Factor", <<city1, city2>>)
    /\ IF city1 # <<>> /\ city2 # <<>>
       THEN Handled("analyze_city_pair_load_factor", <<city1, city2>>,
                    analyze_city_pair_load_factor(city1, city2, canvas), shown)
       ELSE Prompt("Both City 1 and City 2 are required for load factor analysis.")

\* lines 551-565 with each filter applied to the table the last filter
\* returned, when there is one, in the place of `data`
PredefinedFilter_cumulative(event) ==
    /\ pc = "data_exploration_window"
    /\ window_read' = Read(pc, event, <<>>)
    /\ LET source == IF ret.kind = "return" /\ ret.val.tag = "DataFrame" THEN ret.val ELSE data
       IN  \E filtered_data \in
                CASE event = "Most Passenger Trips" -> filter_most_passenger_trips(source)
                  [] event = "Most Aircraft Trips" -> filter_most_aircraft_trips(source)
                  [] event = "Highest Passenger Load Factor Trips" ->
                        filter_highest_load_factor(source)
                  [] event = "Lowest Passenger Load Factor Trips" ->
                        filter_lowest_load_factor(source) :
                Handled(CASE event = "Most Passenger Trips" -> "filter_most_passenger_trips"
                          [] event = "Most Aircraft Trips" -> "filter_most_aircraft_trips"
                          [] event = "Highest Passenger Load Factor Trips" ->
                                "filter_highest_load_factor"
                          [] event = "Lowest Passenger Load Factor Trips" ->
                                "filter_lowest_load_factor",
                        <<>>, Eff(Return(filtered_data), <<>>, canvas),
                        values_tolist(filtered_data))

\* lines 551-565: the four buttons of the predefined filters
PredefinedFilter(event) ==
    /\ pc = "data_exploration_window"
    /\ window_read' = Read(pc, event, <<>>)
    /\ \E filtered_data \in
            CASE event = "Most Passenger Trips" -> filter_most_passenger_trips(data)
              [] event = "Most Aircraft Trips" -> filter_most_aircraft_trips(data)
              [] event = "Highest Passenger Load Factor Trips" ->
                    filter_highest_load_factor(data)
              [] event = "Lowest Passenger Load Factor Trips" ->
                    filter_lowest_load_factor(data) :
            Handled(CASE event = "Most Passenger Trips" -> "filter_most_passenger_trips"
                      [] event = "Most Aircraft Trips" -> "filter_most_aircraft_trips"
                      [] event = "Highest Passenger Load Factor Trips" ->
                            "filter_highest_load_factor"
                      [] event = "Lowest Passenger Load Factor Trips" ->
                            "filter_lowest_load_factor",
                    <<>>, Eff(Return(filtered_data), <<>>, canvas),
                    values_tolist(filtered_data))

FilterButtons ==
    {"Most Passenger Trips", "Most Aircraft Trips", "Highest Passenger Load Factor Trips",
     "Lowest Passenger Load Factor Trips"}

\* lines 568-570
ApplyFilter(values) ==
    /\ pc = "data_exploration_window"
    /\ window_read' = Read(pc, "Apply Filter", <<values>>)
    /\ LET filtered_data == apply_filters(values)
       IN  Handled("apply_filters", <<values>>, Eff(filtered_data, <<>>, canvas),
                   IF filtered_data.kind = "return"
                   THEN values_tolist(filtered_data.val) ELSE shown)

\* lines 573-574
ResetFilter ==
    /\ pc = "data_exploration_window"
    /\ window_read' = Read(pc, "Reset Filter", <<>>)
    /\ Handled("window['-TABLE-'].update", <<>>, Eff(Return(None), <<>>, canvas),
               values_tolist(data))

\* lines 884-906
ShowSummary(city_selected) ==
    /\ pc = "city_summary_window"
    /\ window_read' = Read(pc, "Show Summary", <<city_selected>>)
    /\ Handled(IF city_selected = <<>> THEN "sg.popup" ELSE "calculate_city_stats",
               IF city_selected = <<>> THEN <<>> ELSE <<city_selected, data>>,
               show_summary(city_selected, data, canvas), shown)

\* lines 959-962
AnalyzeDistanceVsLoad ==
    /\ pc = "distance_vs_load_window"
    /\ window_read' = Read(pc, "-ANALYZE-", <<>>)
    /\ \E eff \in analyze_distance_vs_load(data, canvas) :
            Handled("analyze_distance_vs_load", <<>>, eff, shown)

(***************************************************************************)
(* The files the script is started on, and what the user may enter.        *)
(***************************************************************************)
ProgramLines ==
    {("City1" :> c1) @@ ("City2" :> c2) @@ ("Month" :> month)
        @@ ("Passenger_Trips" :> (IF month = "Jan-20" THEN 10 ELSE 20))
        @@ ("Aircraft_Trips" :> (IF c2 = <<"A", "d">> THEN 1 ELSE 2))
        @@ ("Passenger_Load_Factor" :> (IF c1 = <<"a", "d">> THEN 50 ELSE 75))
        @@ ("Distance_GC_(km)" :> 100) :
        c1 \in {<<"a", "d">>, <<"B", "r">>}, c2 \in {<<"A", "d">>, <<"B", "r">>},
        month \in {"Jan-20", "Feb-20"}}

\* a file with a Month cell that does not match the format
MalformedFile ==
    File(FileColumns,
         <<("City1" :> <<"A", "d">>) @@ ("City2" :> <<"B", "r">>) @@ ("Month" :> "2020-01")
            @@ ("Passenger_Trips" :> 10) @@ ("Aircraft_Trips" :> 1)
            @@ ("Passenger_Load_Factor" :> 50) @@ ("Distance_GC_(km)" :> 100)>>)

\* a file with a city whose name holds the text " - "
SeparatorFile ==
    File(FileColumns,
         <<("City1" :> <<"A", " ", "-", " ", "B">>) @@ ("City2" :> <<"B", "r">>)
            @@ ("Month" :> "Jan-20")
            @@ ("Passenger_Trips" :> 10) @@ ("Aircraft_Trips" :> 1)
            @@ ("Passenger_Load_Factor" :> 50) @@ ("Distance_GC_(km)" :> 100)>>)

ProgramFiles ==
    {File(FileColumns, lines) : lines \in SeqsUpTo(ProgramLines, MaxProgramRows)}
        \cup {Missing, File({}, <<>>), MalformedFile, SeparatorFile}

\* what the user may type into a city box or pick in the combo box
TypedCities == {<<>>, Adelaide, Brisbane}

\* what a list box of the comparison window may hold selected: nothing, or
\* one of its entries
Selections ==
    {<<>>} \cup {<<city_pairs(data).val[i]>> : i \in 1..Len(city_pairs(data).val)}

\* what the four boxes of the exploration window may hold at Apply Filter
EnteredFilters ==
    {("-FILTER_CITY1-" :> c1) @@ ("-FILTER_CITY2-" :> c2)
        @@ ("-DATE_START-" :> dates[1]) @@ ("-DATE_END-" :> dates[2]) :
        c1 \in {<<>>, Adelaide}, c2 \in {<<>>, Brisbane},
        dates \in {<<"", "">>, <<"2020-01-01", "2020-01-01">>, <<"2020-02-01", "">>,
                   <<"abc", "2020-01-01">>}}

InitProgram ==
    /\ data = Unbound
    /\ call = NoCall
    /\ ret = Return(None)
    /\ popups = <<>>
    /\ canvas = <<>>
    /\ stdout = <<>>
    /\ pc = "line 9"
    /\ windows = <<>>
    /\ shown = <<>>
    /\ window_read = NoRead
    /\ \E file \in ProgramFiles :
            disk = [path \in Paths |-> IF path = "dom_city_pair.csv" THEN file ELSE Missing]

NextProgram ==
    \/ Line9
    \/ Line67
    \/ Line259
    \/ Line969
    \/ \E event \in DashboardKeys \cup {"WIN_CLOSED", "Exit"} : DashboardRead(event)
    \/ \E event \in {"WIN_CLOSED", "Back"} : SubWindowClose(event)
    \/ \E city1 \in TypedCities, city2 \in TypedCities, clicked \in PopupResults :
            ShowTrend(city1, city2, clicked)
    \/ /\ pc = "compare_city_pairs_window"
       /\ \E selected1 \in Selections, selected2 \in Selections :
                Compare(selected1, selected2)
    \/ \E city1 \in TypedCities, city2 \in TypedCities : AnalyzeLoadFactor(city1, city2)
    \/ \E event \in FilterButtons : PredefinedFilter(event)
    \/ \E values \in EnteredFilters : ApplyFilter(values)
    \/ ResetFilter
    \/ \E city_selected \in TypedCities : ShowSummary(city_selected)
    \/ AnalyzeDistanceVsLoad

SpecProgram == InitProgram /\ [][NextProgram]_vars

(***************************************************************************)
(* Claims about the script as a whole.                                     *)
(***************************************************************************)
\* what the loader returns for the file the script is started on
Loaded == load_and_clean_data(disk["dom_city_pair.csv"]).ret.val

\* C14: once line 9 has bound it, the global table is never changed: after
\* any sequence of window events and of the calls they make (the lookup, the
\* four top-N filters, apply_filters, calculate_city_stats, the correlation
\* analysis, Reset Filter) it is, row by row and cell by cell, the table the
\* loader returned.
C14_TableNeverChanges == pc # "line 9" => data = Loaded

\* a predefined filter has put the rows of a two-row table in the other order
\* on the screen, and the table is as loaded
C14_Witness ==
    /\ pc = "data_exploration_window"
    /\ call.fn \in {"filter_most_passenger_trips", "filter_lowest_load_factor"}
    /\ Len(data.rows) = 2
    /\ shown = <<values_tolist(data)[2], values_tolist(data)[1]>>
    /\ shown # values_tolist(data)
    /\ data = Loaded

\* C15: when the loader has failed (line 9 has bound None to the table), the
\* start of the script is aborted: no window is ever created, no event loop
\* ever reads an event (the script never gets past line 259), and no query
\* is ever called.
C15_FailedLoadAbortsStartup ==
    data = None =>
        /\ windows = <<>>
        /\ pc \in {"line 67", "line 259", "aborted"}
        /\ call.fn \in {"load_and_clean_data", "<module>"}

\* the load of a file with a malformed Month has failed and the script has
\* ended at line 259, where the missing table is subscripted
C15_Witness ==
    /\ data = None
    /\ pc = "aborted"
    /\ ret = Raise("TypeError")
    /\ stdout # <<>>
    /\ stdout[1].msg = "An error occurred: {e}"

(***************************************************************************)
(* Claims about the handlers of the windows.                               *)
(***************************************************************************)
ShowSummaryOf(city) ==
    /\ window_read.event = "Show Summary"
    /\ window_read.values = <<city>>

\* C21: in the city summary window Show Summary for a non-empty city, a city
\* without rows included, ends with the summary popup shown and the event
\* loop of the window still running: no exception leaves the handler.
C21_ShowSummaryEndsWithPopup ==
    \A city \in TypedCities \ {<<>>} :
        ShowSummaryOf(city) =>
            /\ ret.kind = "return"
            /\ Len(popups) = 1
            /\ popups[1].msg = "Total Trips / Average Load Factor / Most Traveled to City"
            /\ pc = "city_summary_window"
            /\ windows = <<"dashboard_window", "city_summary_window">>

\* the values read with the event leave out an input the handler requires
MissingInput ==
    \/ /\ window_read.event \in {"Show Trend", "Analyze Load Factor", "Compare"}
       /\ \E k \in 1..2 : window_read.values[k] = <<>>
    \/ /\ window_read.event = "Show Summary"
       /\ window_read.values[1] = <<>>

\* C23: in every window an action whose input is missing calls no query and
\* draws nothing: it only shows one prompt popup, and the window stays open
\* with what it showed before.
C23_MissingInputOnlyPrompts ==
    [][MissingInput' =>
            /\ call'.fn = "sg.popup"
            /\ ret' = Return(None)
            /\ Len(popups') = 1
            /\ popups'[1].msg \in
                    {"Please enter both City 1 and City 2.",
                     "Please select two city pairs for comparison.",
                     "Both City 1 and City 2 are required for load factor analysis.",
                     "Please select a city to show the summary."}
            /\ UNCHANGED <<canvas, data, shown, pc, windows>>]_vars

\* Analyze Load Factor with the second city left empty has only prompted, and
\* the figure drawn before is still on the canvas
C23_Witness ==
    /\ window_read = Read("load_factor_analysis_window", "Analyze Load Factor",
                          <<Adelaide, <<>>>>)
    /\ call.fn = "sg.popup"
    /\ popups = <<[msg |-> "Both City 1 and City 2 are required for load factor analysis."]>>
    /\ canvas # <<>>
    /\ pc = "load_factor_analysis_window"

\* the window each button of the dashboard stands for (lines 652-657)
OwnWindow ==
    {<<"-EXPLORE_DATA-", "data_exploration_window">>,
     <<"-SHOW_TREND-", "trend_analysis_window">>,
     <<"-COMPARE_CITY_PAIRS-", "compare_city_pairs_window">>,
     <<"-analyze_city_pair_load_factor-", "load_factor_analysis_window">>,
     <<"-CITY_SUMMARY-", "city_summary_window">>,
     <<"-DIST_VS_LOAD-", "distance_vs_load_window">>}

\* the dashboard leaves its read only to exit on Exit or on its closing, or to
\* open the one window of the key read
DashboardStep ==
    pc = "dashboard_window" =>
        \/ /\ window_read'.event \in {"Exit", "WIN_CLOSED"}
           /\ pc' = "exited"
           /\ windows' = <<>>
        \/ /\ <<window_read'.event, pc'>> \in OwnWindow
           /\ windows' = <<"dashboard_window", pc'>>

\* a window goes on reading its own events until Back or its closing hands
\* control back to the dashboard
SubWindowStep ==
    pc \in SubWindows =>
        \/ /\ pc' = pc
           /\ windows' = windows
        \/ /\ pc' = "dashboard_window"
           /\ window_read'.event \in {"Back", "WIN_CLOSED"}
           /\ windows' = <<"dashboard_window">>

\* C22: the dashboard handles events until Exit or its closing; each of the
\* six keys opens its own window, which is closed by Back or its closing
\* before the dashboard reads again: at most one such window is open, and
\* control always returns to the dashboard.
C22_ControlReturnsToDashboard ==
    [][/\ DashboardStep
       /\ SubWindowStep
       /\ Len(windows') <= 2
       /\ pc' = "exited" => pc = "dashboard_window"]_vars

(***************************************************************************)
(* update_dashboard_canvas called again and again on one canvas, which may *)
(* hold widgets before the first call.                                     *)
(***************************************************************************)
MaxChildren == 3

CanvasFigures ==
    {Figure(heading, <<>>) : heading \in {<<"Passenger Trips Trend">>, <<"Load Factor">>,
                                           <<"Distance vs. Passenger Load Factor">>}}

\* the widgets a canvas may hold: figures embedded before, or any other child
Widgets == CanvasFigures \cup {[widget |-> "tkinter.Label"]}

Distinct(seq) == \A i, j \in 1..Len(seq) : seq[i] = seq[j] => i = j

UpdateDashboardCanvas(fig) ==
    /\ call' = [fn |-> "update_dashboard_canvas", args |-> <<fig, canvas>>]
    /\ canvas' = update_dashboard_canvas(fig, canvas)
    /\ ret' = Return(None)
    /\ UNCHANGED <<data, popups, stdout, disk, pc, windows, shown, window_read>>

InitCanvas ==
    /\ data = None
    /\ call = NoCall
    /\ ret = Return(None)
    /\ popups = <<>>
    /\ canvas \in {cv \in SeqsUpTo(Widgets, MaxChildren) : Distinct(cv)}
    /\ stdout = <<>>
    /\ disk = [path \in Paths |-> Missing]
    /\ pc = "direct"
    /\ windows = <<>>
    /\ shown = <<>>
    /\ window_read = NoRead

NextCanvas == \E fig \in CanvasFigures : UpdateDashboardCanvas(fig)

SpecCanvas == InitCanvas /\ [][NextCanvas]_vars

\* C24: update_dashboard_canvas removes every child of the canvas before it
\* embeds the figure: after one or more updates the canvas holds exactly one
\* widget, the figure of the most recent update.
C24_CanvasHoldsLatestFigureOnly ==
    call.fn = "update_dashboard_canvas" => canvas = <<call.args[1]>>

\* an update of a canvas that held three widgets, an earlier figure among
\* them, has left the new figure alone
C24_Witness ==
    /\ call.fn = "update_dashboard_canvas"
    /\ Len(call.args[2]) = 3
    /\ \E i \in 1..3 : call.args[2][i] \in CanvasFigures \ {call.args[1]}
    /\ canvas = <<call.args[1]>>

(***************************************************************************)
(* Claims about the data exploration window.                               *)
(***************************************************************************)
\* the column a button of the predefined filters sorts by
ButtonColumn(button) ==
    CASE button = "Most Passenger Trips" -> "Passenger_Trips"
      [] button = "Most Aircraft Trips" -> "Aircraft_Trips"
      [] button = "Highest Passenger Load Factor Trips" -> "Passenger_Load_Factor"
      [] button = "Lowest Passenger Load Factor Trips" -> "Passenger_Load_Factor"

\* `rows` is the first ten of the rows of `full` put in the order of the button
TopOfFull(rows, full, button) ==
    LET n == Len(full)
        c == ButtonColumn(button)
        InOrder(x, y) == IF button = "Lowest Passenger Load Factor Trips" THEN x <= y ELSE x >= y
    IN  /\ Len(rows) = (IF n < 10 THEN n ELSE 10)
        /\ \E o \in Perms(1..n) :
                /\ \A k \in 1..Len(rows) : rows[k] = full[o[k]]
                /\ \A k \in 1..n, l \in 1..n : k < l => InOrder(full[o[k]][c], full[o[l]][c])

\* the rows of `full`, in its order, that meet the criteria entered
MeetingCriteria(full, values) ==
    LET dated == values["-DATE_START-"] # "" /\ values["-DATE_END-"] # ""
        kept == {j \in 1..Len(full) :
                    /\ values["-FILTER_CITY1-"] # <<>> =>
                            full[j]["City1"] = values["-FILTER_CITY1-"]
                    /\ values["-FILTER_CITY2-"] # <<>> =>
                            full[j]["City2"] = values["-FILTER_CITY2-"]
                    /\ dated => /\ Timestamp(values["-DATE_START-"]) <= full[j]["Date"]
                                /\ full[j]["Date"] <= Timestamp(values["-DATE_END-"])}
    IN  [k \in 1..Cardinality(kept) |-> full[Ascending(kept)[k]]]

\* C25: the rows the data exploration window shows are those the last event
\* read gives on the full table, whatever was shown before: all rows when the
\* window opens and after Reset Filter, the top rows of the full table after
\* a predefined filter, the rows of the full table that meet the criteria
\* after Apply Filter.
C25_ShownFromFullTableByLastEvent ==
    pc = "data_exploration_window" =>
        LET full == values_tolist(data)
            event == window_read.event
        IN  /\ event \in {"-EXPLORE_DATA-", "Reset Filter"} => shown = full
            /\ event \in FilterButtons => TopOfFull(shown, full, event)
            /\ event = "Apply Filter" => shown = MeetingCriteria(full, window_read.values[1])

\* Apply Filter with only City 2 set shows two rows that differ in City1
C25_Witness ==
    /\ pc = "data_exploration_window"
    /\ window_read.event = "Apply Filter"
    /\ window_read.values[1]["-FILTER_CITY1-"] = <<>>
    /\ window_read.values[1]["-FILTER_CITY2-"] = Brisbane
    /\ Len(shown) = 2
    /\ shown[1]["City1"] # shown[2]["City1"]

(***************************************************************************)
(* apply_filters beside get_city_pair_data, on the same tables.            *)
(***************************************************************************)
\* what the boxes may hold: any city text, the dates unset or both set
CityFilterValues ==
    {("-FILTER_CITY1-" :> c1) @@ ("-FILTER_CITY2-" :> c2)
        @@ ("-DATE_START-" :> dates[1]) @@ ("-DATE_END-" :> dates[2]) :
        c1 \in CityInputs, c2 \in CityInputs,
        dates \in {<<"", "">>, <<"2020-02-01", "2020-02-01">>}}

InitCityFilter == InitWith(LookupTables(MaxRows))

NextCityFilter ==
    \/ \E values \in CityFilterValues : ApplyFilters(values)
    \/ \E city1 \in CityInputs, city2 \in CityInputs : GetCityPairData(city1, city2)

SpecCityFilter == InitCityFilter /\ [][NextCityFilter]_vars

C27_EntriesSplitBackIntoCities ==
    /\ data.tag = "DataFrame" =>
            LET entries == city_pairs(data).val
            IN  /\ Len(entries) = Len(data.rows)
                /\ \A i \in 1..Len(entries) :
                        split(entries[i], Sep)
                            = <<data.rows[i]["City1"], data.rows[i]["City2"]>>
    /\ window_read.event = "Compare" => ret # Raise("ValueError")

(***************************************************************************)
(* Claims about the no-data indications of calculate_city_stats.           *)
(***************************************************************************)
\* the average is no number: the str "nan" of line 304, or the float NaN
NoDataAverage(avg) == avg = PyStr("nan") \/ (avg.tag = "float" /\ avg.den = 0)

\* C28: in every result of calculate_city_stats total_trips is 0 exactly when
\* avg_load_factor is the no-data value and exactly when
\* most_traveled_to_city is "No data"; when total_trips > 0 the city named is
\* the City2 of a row of the city; and on a dataset with the three columns
\* the lookup of the mode does not fail.
C28_NoDataIndicationsCoincide ==
    call.fn = "calculate_city_stats" =>
        /\ RequiredColumns \subseteq call.args[2].columns => ret.kind = "return"
        /\ ret.kind = "return" =>
                /\ ret.val.total_trips = 0 <=> NoDataAverage(ret.val.avg_load_factor)
                /\ ret.val.total_trips = 0 <=> ret.val.most_traveled_to_city = NoData
                /\ ret.val.total_trips > 0 => Frequency(ret.val.most_traveled_to_city) > 0

\* the statistics of a city without rows in a table of three rows of
\* another city: all three indications say no data
C28_Witness ==
    /\ call.fn = "calculate_city_stats"
    /\ call.args[2] = data
    /\ Len(data.rows) = 3
    /\ CityRows = {}
    /\ ret = Return([total_trips |-> 0, avg_load_factor |-> PyStr("nan"),
                     most_traveled_to_city |-> NoData])

====
